---- MODULE Spec2Model ----
(***************************************************************************)
(* State-machine model of static/script.js: the chat page's transcript     *)
(* renderer (addMessage, formatMessage, escapeHtml) and its conversation   *)
(* controller (sendMessage and the two event listeners).                   *)
(*                                                                         *)
(* A JavaScript string is modelled as a sequence of one-character strings, *)
(* so that trimming, splitting, prefix tests and escaping are computed     *)
(* and not assumed.                                                        *)
(***************************************************************************)
EXTENDS Integers, Sequences, FiniteSets, TLC

VARIABLES
    draft,           \* userInput.value
    inputDisabled,   \* userInput.disabled
    buttonDisabled,  \* sendButton.disabled
    placeholder,     \* userInput.placeholder
    transcript,      \* the children of chatContainer, in document order
    pending,         \* the suspended sendMessage() calls, in order of issue
    sent,            \* the network log: every request handed to fetch()
    last             \* the event dispatched last (history variable)

vars == <<draft, inputDisabled, buttonDisabled, placeholder, transcript,
          pending, sent, last>>

----------------------------------------------------------------------------
(* Bounds of the model. *)

\* longest draft the user types
MaxLen == 2
\* number of requests issued in one page load
MaxTurns == 2
\* longest message body rendered character by character
MaxText == 3

----------------------------------------------------------------------------
(* Strings. *)

\* the characters String.prototype.trim removes (those the model uses)
WhiteSpace == {" ", "\t", "\n"}

RECURSIVE TrimStart(_)
TrimStart(s) ==
    IF s # <<>> /\ Head(s) \in WhiteSpace THEN TrimStart(Tail(s)) ELSE s

RECURSIVE TrimEnd(_)
TrimEnd(s) ==
    IF s # <<>> /\ s[Len(s)] \in WhiteSpace
    THEN TrimEnd(SubSeq(s, 1, Len(s) - 1))
    ELSE s

\* String.prototype.trim
Trim(s) == TrimEnd(TrimStart(s))

\* String.prototype.startsWith
StartsWith(s, prefix) ==
    /\ Len(s) >= Len(prefix)
    /\ SubSeq(s, 1, Len(prefix)) = prefix

\* String.prototype.substring(from), from counted from 0
Substring(s, from) == SubSeq(s, from + 1, Len(s))

ToLowerChar(c) ==
    CASE c = "Y" -> "y"
      [] c = "A" -> "a"
      [] c = "E" -> "e"
      [] OTHER -> c

\* String.prototype.toLowerCase
ToLowerCase(s) == [i \in 1..Len(s) |-> ToLowerChar(s[i])]

\* a mutant of Split: the text is taken as one line
SplitNothing(s) == <<s>>

\* String.prototype.split('\n')
RECURSIVE Split(_)
Split(s) ==
    LET breaks == {i \in 1..Len(s) : s[i] = "\n"}
    IN  IF breaks = {}
        THEN <<s>>
        ELSE LET i == CHOOSE k \in breaks : \A j \in breaks : k <= j
             IN  <<SubSeq(s, 1, i - 1)>> \o Split(SubSeq(s, i + 1, Len(s)))

----------------------------------------------------------------------------
(* escapeHtml: the text is assigned to textContent and read back as       *)
(* innerHTML, which serialises '&', '<' and '>' as character references.   *)

\* a mutant of EscapeChar: the text is inserted as it is
EscapeCharRaw(c) == <<c>>

EscapeChar(c) ==
    CASE c = "&" -> <<"&", "a", "m", "p", ";">>
      [] c = "<" -> <<"&", "l", "t", ";">>
      [] c = ">" -> <<"&", "g", "t", ";">>
      [] OTHER -> <<c>>

RECURSIVE EscapeHtml(_)
EscapeHtml(text) ==
    IF text = <<>> THEN <<>>
    ELSE EscapeChar(Head(text)) \o EscapeHtml(Tail(text))

----------------------------------------------------------------------------
(* formatMessage *)

\* the bullet glyph as the source file spells it: three characters
BulletGlyph == <<"â", "€", "¢">>
Hyphen == <<"-">>

UlOpen   == <<"<", "u", "l", ">">>
UlClose  == <<"<", "/", "u", "l", ">">>
LiOpen   == <<"<", "l", "i", ">">>
LiClose  == <<"<", "/", "l", "i", ">">>
DivOpen  == <<"<", "d", "i", "v", ">">>
DivClose == <<"<", "/", "d", "i", "v", ">">>
Br       == <<"<", "b", "r", ">">>

IsBulletLine(trimmed) ==
    StartsWith(trimmed, BulletGlyph) \/ StartsWith(trimmed, Hyphen)

\* a mutant of FormatLine: a blank line emits nothing
FormatLineSkipsBlank(line, acc) ==
    LET trimmed == Trim(line)
    IN  IF IsBulletLine(trimmed)
        THEN LET opened   == IF ~acc.inList THEN acc.html \o UlOpen ELSE acc.html
                 listItem == Trim(Substring(trimmed, 1))
             IN  [inList |-> TRUE,
                  html   |-> opened \o LiOpen \o EscapeHtml(listItem) \o LiClose]
        ELSE LET closed == IF acc.inList THEN acc.html \o UlClose ELSE acc.html
             IN  [inList |-> FALSE,
                  html   |-> IF trimmed # <<>>
                             THEN closed \o DivOpen \o EscapeHtml(trimmed) \o DivClose
                             ELSE closed]

\* the body of the forEach callback: one line, given inList and html so far
FormatLine(line, acc) ==
    LET trimmed == Trim(line)
    IN  IF IsBulletLine(trimmed)
        THEN LET opened   == IF ~acc.inList THEN acc.html \o UlOpen ELSE acc.html
                 listItem == Trim(Substring(trimmed, 1))
             IN  [inList |-> TRUE,
                  html   |-> opened \o LiOpen \o EscapeHtml(listItem) \o LiClose]
        ELSE LET closed == IF acc.inList THEN acc.html \o UlClose ELSE acc.html
             IN  [inList |-> FALSE,
                  html   |-> IF trimmed # <<>>
                             THEN closed \o DivOpen \o EscapeHtml(trimmed) \o DivClose
                             ELSE closed \o Br]

RECURSIVE FormatLines(_, _)
FormatLines(lines, acc) ==
    IF lines = <<>> THEN acc
    ELSE FormatLines(Tail(lines), FormatLine(Head(lines), acc))

\* a mutant of Markup: a list open at the end of the input is not closed
MarkupNoFinalClose(text) ==
    FormatLines(Split(text), [inList |-> FALSE, html |-> <<>>]).html

\* html as it stands at the return statement
Markup(text) ==
    LET r == FormatLines(Split(text), [inList |-> FALSE, html |-> <<>>])
    IN  IF r.inList THEN r.html \o UlClose ELSE r.html

\* return html || escapeHtml(text)
FormatMessage(text) ==
    IF Markup(text) # <<>> THEN Markup(text) ELSE EscapeHtml(text)

----------------------------------------------------------------------------
(* JavaScript values that reach the script from a parsed response body. *)

Undefined == [t |-> "undefined", s |-> <<>>, b |-> FALSE, n |-> 0]
JStr(s)   == [t |-> "string", s |-> s, b |-> FALSE, n |-> 0]
JBool(b)  == [t |-> "boolean", s |-> <<>>, b |-> b, n |-> 0]
JNum(n)   == [t |-> "number", s |-> <<>>, b |-> FALSE, n |-> n]

\* ToBoolean, as `if (data.quit)` applies it
Truthy(v) ==
    CASE v.t = "boolean" -> v.b
      [] v.t = "string"  -> v.s # <<>>
      [] v.t = "number"  -> v.n # 0
      [] OTHER -> FALSE

\* what response.json() resolves to: null, or an object whose two fields are
\* read by the script (an absent field reads as undefined)
NullBody == [isNull |-> TRUE, response |-> Undefined, quit |-> Undefined]
ObjectBody(r, q) == [isNull |-> FALSE, response |-> r, quit |-> q]

----------------------------------------------------------------------------
(* addMessage *)

YouLabel       == <<"Y", "o", "u", ":">>
AssistantLabel == <<"A", "s", "s", "i", "s", "t", "a", "n", "t", ":">>
UserPrefix     == <<"y", "o", "u", ":">>

\* a mutant of ClassName: the prefix test is case-sensitive
ClassNameCaseSensitive(label) ==
    IF StartsWith(label, UserPrefix)
    THEN "message user-message"
    ELSE "message assistant-message"

\* the class addMessage gives the entry: label.toLowerCase().startsWith('you:')
ClassName(label) ==
    IF StartsWith(ToLowerCase(label), UserPrefix)
    THEN "message user-message"
    ELSE "message assistant-message"

\* a mutant of AddMessageThrows: the content is coerced to a string
AddMessageCoerces(content) == FALSE

\* text.split is not a function unless text is a string: formatMessage throws
\* before addMessage appends anything
AddMessageThrows(content) == content.t # "string"

\* the element addMessage appends for a string content
MessageDiv(label, text) ==
    [className |-> ClassName(label),
     label     |-> label,
     content   |-> text,
     html      |-> FormatMessage(text)]

AddMessage(container, label, text) == Append(container, MessageDiv(label, text))

----------------------------------------------------------------------------
(* The remote endpoint and the user, as the script can observe them. *)

\* the characters the user types into the draft field
Alphabet == {" ", "a"}

\* HTTP statuses fetch() resolves with; fetch() resolves on every status
Statuses == {200, 500}

\* reply texts the endpoint sends
ReplyTexts == { <<"h", "i">>, <<"-", " ", "b", "y", "e">> }

ResponseValues == {Undefined, JNum(5)} \cup {JStr(s) : s \in ReplyTexts}
QuitValues     == {Undefined, JBool(TRUE), JBool(FALSE), JStr(<<"n", "o">>)}

Bodies == {NullBody} \cup {ObjectBody(r, q) : r \in ResponseValues, q \in QuitValues}

\* error.message of a rejected fetch() and of a rejected response.json()
FetchErrorMessages == { <<"n", "e", "t">> }
ParseErrorMessages == { <<"j", "s", "o", "n">> }
\* error.message of the TypeError thrown by reading data.response of null, and
\* by calling split on a value that has none (the wording is the engine's)
NullReadMessage == <<"n", "u", "l", "l">>
NotAFunctionMessage == <<"s", "p", "l", "i", "t">>

\* the placeholder the host page gives the field; the script only ever
\* overwrites it with the notice below
InitialPlaceholder == "host page placeholder"
SessionEndedNotice == "Session ended. Refresh to start again."

ErrorPrefix == <<"E", "r", "r", "o", "r", ":", " ">>

\* the event record kept in `last`: its kind, the status and the parsed body
\* of the response it delivered, and the text it carried (the draft that
\* sendMessage read, or the message of the error caught)
Event(ev, status, data, text) ==
    [ev |-> ev, status |-> status, data |-> data, text |-> text]
PlainEvent(ev) == Event(ev, 0, NullBody, <<>>)

----------------------------------------------------------------------------
(* sendMessage, up to its first await. *)

\* a mutant of Message: the draft is sent as typed
MessageUntrimmed(value) == value

\* const message = userInput.value.trim()
Message(value) == Trim(value)

\* a mutant of Declined: only the empty draft is declined
DeclinedOnlyEmpty(value) == value = <<>>

\* if (!message) return
Declined(value) == Message(value) = <<>>

\* a mutant of ClearedDraft: the draft is left in the field
ClearedDraftKept(value) == value

\* userInput.value = ''
ClearedDraft(value) == <<>>

\* JSON.stringify({ message: message })
RequestBody(message) == [message |-> message]

Request(message) ==
    [url         |-> "/api/chat",
     method      |-> "POST",
     contentType |-> "application/json",
     body        |-> RequestBody(message)]

SendMessage(ev) ==
    IF Declined(draft)
    THEN /\ last' = Event(ev, 0, NullBody, draft)
         /\ UNCHANGED <<draft, inputDisabled, buttonDisabled, placeholder,
                        transcript, pending, sent>>
    ELSE /\ Len(sent) < MaxTurns
         /\ transcript' = AddMessage(transcript, YouLabel, Message(draft))
         /\ draft' = ClearedDraft(draft)
         /\ inputDisabled' = TRUE
         /\ buttonDisabled' = TRUE
         /\ sent' = Append(sent, Request(Message(draft)))
         /\ pending' = Append(pending, [request |-> Request(Message(draft)),
                                        phase   |-> "fetch",
                                        status  |-> 0])
         /\ last' = Event(ev, 0, NullBody, draft)
         /\ UNCHANGED placeholder

----------------------------------------------------------------------------
(* sendMessage, resumed: the rest of the try block and the catch block. *)

Remove(seq, i) == SubSeq(seq, 1, i - 1) \o SubSeq(seq, i + 1, Len(seq))

\* a mutant of ErrorText: the description is shown without its prefix
ErrorTextBare(message) == message

\* `Error: ${error.message}`
ErrorText(message) == ErrorPrefix \o message

\* a mutant of Catch: the failed request is sent once more
CatchRetries(i, message) ==
    /\ transcript' = AddMessage(transcript, AssistantLabel, ErrorText(message))
    /\ inputDisabled' = FALSE
    /\ buttonDisabled' = FALSE
    /\ pending' = Remove(pending, i)
    /\ sent' = Append(sent, pending[i].request)
    /\ UNCHANGED <<draft, placeholder>>

\* a mutant of Catch: the controls are left disabled
CatchWithoutEnable(i, message) ==
    /\ transcript' = AddMessage(transcript, AssistantLabel, ErrorText(message))
    /\ pending' = Remove(pending, i)
    /\ UNCHANGED <<draft, inputDisabled, buttonDisabled, placeholder, sent>>

\* a mutant of Catch: only the field is enabled again
CatchEnablesFieldOnly(i, message) ==
    /\ transcript' = AddMessage(transcript, AssistantLabel, ErrorText(message))
    /\ inputDisabled' = FALSE
    /\ pending' = Remove(pending, i)
    /\ UNCHANGED <<draft, buttonDisabled, placeholder, sent>>

\* the catch block, run for the call suspended at pending[i]
Catch(i, message) ==
    /\ transcript' = AddMessage(transcript, AssistantLabel, ErrorText(message))
    /\ inputDisabled' = FALSE
    /\ buttonDisabled' = FALSE
    /\ pending' = Remove(pending, i)
    /\ UNCHANGED <<draft, placeholder, sent>>

\* a mutant of Quit: the session never ends
QuitNever(data) == FALSE

\* if (data.quit)
Quit(data) == Truthy(data.quit)

\* the try block after `await response.json()` has produced data
Reply(i, data) ==
    IF data.isNull
    THEN Catch(i, NullReadMessage)
    ELSE IF AddMessageThrows(data.response)
    THEN Catch(i, NotAFunctionMessage)
    ELSE /\ transcript' = AddMessage(transcript, AssistantLabel, data.response.s)
         /\ IF Quit(data)
            THEN /\ inputDisabled' = TRUE
                 /\ buttonDisabled' = TRUE
                 /\ placeholder' = SessionEndedNotice
            ELSE /\ inputDisabled' = FALSE
                 /\ buttonDisabled' = FALSE
                 /\ UNCHANGED placeholder
         /\ pending' = Remove(pending, i)
         /\ UNCHANGED <<draft, sent>>

----------------------------------------------------------------------------
(* Events. *)

\* the user edits the draft; a disabled field takes no input (no draft is
\* begun once the last request of the run has been issued)
TypeChar(c) ==
    /\ ~inputDisabled
    /\ Len(draft) < MaxLen
    /\ Len(sent) < MaxTurns
    /\ draft' = Append(draft, c)
    /\ last' = PlainEvent("type")
    /\ UNCHANGED <<inputDisabled, buttonDisabled, placeholder, transcript,
                   pending, sent>>

Backspace ==
    /\ ~inputDisabled
    /\ draft # <<>>
    /\ draft' = SubSeq(draft, 1, Len(draft) - 1)
    /\ last' = PlainEvent("type")
    /\ UNCHANGED <<inputDisabled, buttonDisabled, placeholder, transcript,
                   pending, sent>>

\* sendButton's click listener; a disabled button dispatches no click
ClickSend ==
    /\ ~buttonDisabled
    /\ SendMessage("click")

\* userInput's keypress listener for the Enter key; a disabled field has no
\* focus and receives no key
KeypressEnter(shiftKey) ==
    /\ ~inputDisabled
    /\ IF ~shiftKey
       THEN SendMessage("enter")
       ELSE /\ last' = PlainEvent("shift+enter")
            /\ UNCHANGED <<draft, inputDisabled, buttonDisabled, placeholder,
                           transcript, pending, sent>>

\* sendMessage() called as the global function it is
DirectSubmit == SendMessage("call")

\* fetch() resolves, whatever the status (the script reads neither
\* response.ok nor response.status): the call goes on to await response.json()
FetchResolve(i, status) ==
    /\ pending[i].phase = "fetch"
    /\ last' = Event("fetch.resolved", status, NullBody, <<>>)
    /\ pending' = [pending EXCEPT ![i].phase = "json", ![i].status = status]
    /\ UNCHANGED <<draft, inputDisabled, buttonDisabled, placeholder,
                   transcript, sent>>

\* fetch() rejects
FetchReject(i, message) ==
    /\ pending[i].phase = "fetch"
    /\ last' = Event("fetch.rejected", 0, NullBody, message)
    /\ Catch(i, message)

\* response.json() rejects: the body is not JSON
JsonReject(i, message) ==
    /\ pending[i].phase = "json"
    /\ last' = Event("json.rejected", pending[i].status, NullBody, message)
    /\ Catch(i, message)

\* response.json() resolves with the parsed body
JsonResolve(i, data) ==
    /\ pending[i].phase = "json"
    /\ last' = Event("json.resolved", pending[i].status, data, <<>>)
    /\ Reply(i, data)

----------------------------------------------------------------------------

Init ==
    /\ draft = <<>>
    /\ inputDisabled = FALSE
    /\ buttonDisabled = FALSE
    /\ placeholder = InitialPlaceholder
    /\ transcript = <<>>
    /\ pending = <<>>
    /\ sent = <<>>
    /\ last = PlainEvent("load")

Next ==
    \/ \E c \in Alphabet : TypeChar(c)
    \/ Backspace
    \/ ClickSend
    \/ \E shiftKey \in BOOLEAN : KeypressEnter(shiftKey)
    \/ DirectSubmit
    \/ \E i \in 1..Len(pending), status \in Statuses : FetchResolve(i, status)
    \/ \E i \in 1..Len(pending), m \in FetchErrorMessages : FetchReject(i, m)
    \/ \E i \in 1..Len(pending), m \in ParseErrorMessages : JsonReject(i, m)
    \/ \E i \in 1..Len(pending), data \in Bodies : JsonResolve(i, data)

Spec == Init /\ [][Next]_vars

\* a suspended call is resumed: its fetch() or its response.json() settles
Completion ==
    \/ \E i \in 1..Len(pending), status \in Statuses : FetchResolve(i, status)
    \/ \E i \in 1..Len(pending), m \in FetchErrorMessages : FetchReject(i, m)
    \/ \E i \in 1..Len(pending), m \in ParseErrorMessages : JsonReject(i, m)
    \/ \E i \in 1..Len(pending), data \in Bodies : JsonResolve(i, data)

\* what a completion does to the suspended calls: the call at pending[i]
\* either ends (its catch block or the rest of its try block has run) or
\* moves from `await fetch` to `await response.json()`
Settle ==
    \E i \in 1..Len(pending) :
        \/ pending' = Remove(pending, i)
        \/ /\ pending[i].phase = "fetch"
           /\ \E status \in Statuses :
                 pending' = [pending EXCEPT ![i].phase = "json",
                                            ![i].status = status]

\* the program when every promise the script awaits settles in the end;
\* the steps of Settle that change pending are the steps of Completion
FairSpec == Spec /\ WF_pending(Settle)

----------------------------------------------------------------------------
(* The renderer on its own: addMessage applied once to a label and a       *)
(* content, the content drawn from every short text over the characters    *)
(* the formatter tells apart and from a few longer bodies.                 *)

\* a letter, white space, the line break, both bullet markers and the
\* characters escapeHtml rewrites
TextAlphabet == {"a", " ", "\n", "-", "<", ">", "&", "â", "€", "¢"}

ListSample   == <<"-", " ", "a", "\n", "-", " ", "b", "\n", "c">>
ScriptSample == <<"<", "s", "c", "r", "i", "p", "t", ">">>
GlyphSample  == <<"â", "€", "¢", " ", "a", "\n", "-", "b">>
SampleTexts  == {ListSample, ScriptSample, GlyphSample}

Texts == UNION {[1..n -> TextAlphabet] : n \in 0..MaxText} \cup SampleTexts

Labels == {YouLabel, AssistantLabel}

\* the content about to be rendered is kept in last.text
RenderInit ==
    /\ draft = <<>>
    /\ inputDisabled = FALSE
    /\ buttonDisabled = FALSE
    /\ placeholder = InitialPlaceholder
    /\ transcript = <<>>
    /\ pending = <<>>
    /\ sent = <<>>
    /\ \E text \in Texts : last = Event("content", 0, NullBody, text)

\* addMessage(label, content)
Render(label) ==
    /\ transcript = <<>>
    /\ transcript' = AddMessage(transcript, label, last.text)
    /\ UNCHANGED <<draft, inputDisabled, buttonDisabled, placeholder,
                   pending, sent, last>>

RenderNext == \E label \in Labels : Render(label)

RenderSpec == RenderInit /\ [][RenderNext]_vars

----------------------------------------------------------------------------
(* Vocabulary of the properties. *)

SubmitEvents == {"click", "enter", "call"}

UserClass      == "message user-message"
AssistantClass == "message assistant-message"

\* the controller's state, read off the controls and the calls in flight
CtrlState ==
    CASE ~inputDisabled /\ ~buttonDisabled /\ pending = <<>>
             /\ placeholder # SessionEndedNotice -> "Idle"
      [] inputDisabled /\ buttonDisabled /\ Len(pending) = 1
             /\ placeholder # SessionEndedNotice -> "AwaitingReply"
      [] inputDisabled /\ buttonDisabled /\ pending = <<>>
             /\ placeholder = SessionEndedNotice -> "Ended"
      [] OTHER -> "Invalid"

\* every character of d is white space (d may be empty)
AllWhiteSpace(d) == \A i \in 1..Len(d) : d[i] \in {" ", "\t", "\n"}

\* m is d without its leading and trailing white space, said without Trim
IsTrimmedFormOf(m, d) ==
    \E a \in 0..Len(d), b \in 0..Len(d) :
        /\ a + b <= Len(d)
        /\ m = SubSeq(d, a + 1, Len(d) - b)
        /\ AllWhiteSpace(SubSeq(d, 1, a))
        /\ AllWhiteSpace(SubSeq(d, Len(d) - b + 1, Len(d)))
        /\ m # <<>> => ~AllWhiteSpace(<<m[1]>>) /\ ~AllWhiteSpace(<<m[Len(m)]>>)

\* the parsed body has the shape { response: string, quit: boolean }
ExpectedShape(data) ==
    /\ ~data.isNull
    /\ data.response.t = "string"
    /\ data.quit.t = "boolean"

\* the parsed body carries a reply text, so the try block renders it
CarriesReply(data) == ~data.isNull /\ data.response.t = "string"

\* the newest transcript entry is an assistant entry reporting an error
LastEntryIsError ==
    /\ transcript # <<>>
    /\ transcript[Len(transcript)].className = AssistantClass
    /\ StartsWith(transcript[Len(transcript)].content, ErrorPrefix)

----------------------------------------------------------------------------
(* C1. At most one network request is in flight in every reachable state,  *)
(* whatever clicks, Enter presses, direct sendMessage() calls, responses   *)
(* and failures came before: no request is issued while an earlier one has *)
(* neither succeeded nor failed.                                           *)
C1_AtMostOneInFlight == Len(pending) <= 1

\* sendMessage() was called while a request was in flight
C1_Witness ==
    /\ Len(pending) = 1
    /\ last.ev = "call"
    /\ Len(sent) < MaxTurns

(* C2. Once a successful response with quit = true has been handled the    *)
(* session is ended for good: the field and the button stay disabled, and  *)
(* no later sendMessage() call, however made, appends a transcript entry   *)
(* or issues a request.                                                    *)
SessionEnded ==
    /\ inputDisabled
    /\ buttonDisabled
    /\ pending = <<>>
    /\ placeholder = SessionEndedNotice

HandledQuit ==
    /\ last.ev = "json.resolved"
    /\ CarriesReply(last.data)
    /\ last.data.quit = JBool(TRUE)

C2_EndedForever ==
    /\ [](HandledQuit => SessionEnded)
    /\ [][SessionEnded => /\ SessionEnded'
                          /\ transcript' = transcript
                          /\ sent' = sent]_vars

\* sendMessage() was called after the session had ended
C2_Witness ==
    /\ SessionEnded
    /\ last.ev = "call"
    /\ transcript[Len(transcript)].content \in ReplyTexts

(* C3. The controller starts in Idle and every step that changes its state *)
(* (controls enabled or disabled, request in flight, ended) is one of four *)
(* transitions: Idle to AwaitingReply on a submit of a draft that is not   *)
(* blank; AwaitingReply to Idle on a rendered reply that does not signal   *)
(* termination; AwaitingReply to Ended on a rendered reply that signals    *)
(* it; AwaitingReply to Idle on a failure. Success is the try block        *)
(* running to its end and failure the catch block running.                 *)
C3_Submit ==
    /\ CtrlState = "Idle" /\ CtrlState' = "AwaitingReply"
    /\ last'.ev \in SubmitEvents
    /\ ~AllWhiteSpace(draft)

C3_SuccessNotEnded ==
    /\ CtrlState = "AwaitingReply" /\ CtrlState' = "Idle"
    /\ last'.ev = "json.resolved"
    /\ CarriesReply(last'.data)
    /\ ~Truthy(last'.data.quit)

C3_SuccessEnded ==
    /\ CtrlState = "AwaitingReply" /\ CtrlState' = "Ended"
    /\ last'.ev = "json.resolved"
    /\ CarriesReply(last'.data)
    /\ Truthy(last'.data.quit)

C3_Failure ==
    /\ CtrlState = "AwaitingReply" /\ CtrlState' = "Idle"
    /\ \/ last'.ev \in {"fetch.rejected", "json.rejected"}
       \/ last'.ev = "json.resolved" /\ ~CarriesReply(last'.data)

C3_NoChange ==
    /\ CtrlState' = CtrlState
    /\ UNCHANGED <<inputDisabled, buttonDisabled, placeholder>>
    /\ Len(pending') = Len(pending)

C3_FourTransitions ==
    /\ CtrlState = "Idle"
    /\ [](CtrlState # "Invalid")
    /\ [][\/ C3_Submit
          \/ C3_SuccessNotEnded
          \/ C3_SuccessEnded
          \/ C3_Failure
          \/ C3_NoChange]_vars

\* a second turn has ended the session after a first one returned to Idle
C3_Witness ==
    /\ CtrlState = "Ended"
    /\ Len(transcript) = 4

(* C4. sendMessage() on a draft that is empty or all white space does      *)
(* nothing: the transcript, the requests issued, the draft text, both      *)
(* disabled flags and the placeholder are left as they were.               *)
C4_BlankDraftNoOp ==
    [][(last'.ev \in SubmitEvents /\ AllWhiteSpace(draft))
          => UNCHANGED <<transcript, sent, pending, draft, inputDisabled,
                         buttonDisabled, placeholder>>]_vars

\* the send button was clicked on a draft of white space
C4_Witness ==
    /\ last.ev = "click"
    /\ draft # <<>>
    /\ AllWhiteSpace(draft)

(* C5. A response that arrives with a non-success HTTP status is handled   *)
(* as a failure, whatever its body holds: one assistant entry prefixed as  *)
(* an error is appended, the controls are re-enabled and the session is    *)
(* not ended.                                                              *)
C5_NonSuccessStatusIsFailure ==
    (last.ev = "json.resolved" /\ last.status \notin 200..299)
        => /\ LastEntryIsError
           /\ ~inputDisabled
           /\ ~buttonDisabled
           /\ placeholder # SessionEndedNotice

(* C6. A transport failure (fetch rejected, or a body that does not parse) *)
(* while a reply is awaited appends exactly one transcript entry, labelled *)
(* as the assistant, whose body is 'Error: ' followed by the failure's     *)
(* description, and leaves the controller Idle with the field and the      *)
(* button enabled.                                                         *)
C6_TransportFailure ==
    [][(last'.ev \in {"fetch.rejected", "json.rejected"})
          => /\ CtrlState = "AwaitingReply"
             /\ Len(transcript') = Len(transcript) + 1
             /\ SubSeq(transcript', 1, Len(transcript)) = transcript
             /\ transcript'[Len(transcript')].className = AssistantClass
             /\ transcript'[Len(transcript')].label = AssistantLabel
             /\ transcript'[Len(transcript')].content
                    = <<"E", "r", "r", "o", "r", ":", " ">> \o last'.text
             /\ CtrlState' = "Idle"
             /\ ~inputDisabled' /\ ~buttonDisabled']_vars

\* a body that did not parse has been reported and the controller is Idle
C6_Witness ==
    /\ last.ev = "json.rejected"
    /\ last.text \in ParseErrorMessages
    /\ CtrlState = "Idle"
    /\ LastEntryIsError

(* C7. A parsed body that is not of the shape { response: string, quit:    *)
(* boolean } (response missing or not a string, quit missing, body null)   *)
(* is treated as a transport failure is: one error-prefixed assistant      *)
(* entry is appended, no reply entry is appended, and the controller       *)
(* returns to Idle.                                                        *)
C7_MalformedBodyIsFailure ==
    (last.ev = "json.resolved" /\ ~ExpectedShape(last.data))
        => /\ LastEntryIsError
           /\ CtrlState = "Idle"

\* C7 as it holds: a body that is null, or whose response is missing or not a
\* string, is treated as a transport failure is (one error-prefixed assistant
\* entry, no reply entry, back to Idle); a body whose response is a string is
\* rendered as a reply whatever its quit field is, and ends the session
\* exactly when quit is truthy, so that a missing quit returns to Idle.
C7_ReplyTextDecides ==
    [][(last'.ev = "json.resolved")
          => /\ Len(transcript') = Len(transcript) + 1
             /\ SubSeq(transcript', 1, Len(transcript)) = transcript
             /\ transcript'[Len(transcript')].className = AssistantClass
             /\ IF CarriesReply(last'.data)
                THEN /\ transcript'[Len(transcript')].content
                           = last'.data.response.s
                     /\ CtrlState' = IF Truthy(last'.data.quit)
                                     THEN "Ended" ELSE "Idle"
                ELSE /\ StartsWith(transcript'[Len(transcript')].content,
                                   <<"E", "r", "r", "o", "r", ":", " ">>)
                     /\ CtrlState' = "Idle"]_vars

\* a body whose response is not a string has been reported as an error
C7_Witness ==
    /\ last.ev = "json.resolved"
    /\ ~last.data.isNull
    /\ last.data.response.t = "number"
    /\ LastEntryIsError
    /\ CtrlState = "Idle"

(* C8. The transcript is append-only and alternates: it is a sequence of   *)
(* turns, a user entry followed by one assistant entry (the reply or the   *)
(* error of that submission); the last turn lacks its assistant entry      *)
(* exactly when a request is in flight; the user entry of a turn is        *)
(* appended with the issue of its request and carries its message; no      *)
(* earlier entry is ever changed, removed or reordered.                    *)
C8_Turns ==
    /\ \A i \in 1..Len(transcript) :
          transcript[i].className =
              IF i % 2 = 1 THEN UserClass ELSE AssistantClass
    /\ (Len(transcript) % 2 = 1) <=> (pending # <<>>)
    /\ Len(sent) = (Len(transcript) + 1) \div 2
    /\ \A k \in 1..Len(sent) :
          sent[k].body.message = transcript[2 * k - 1].content

C8_AppendOnly ==
    /\ Len(transcript') \in {Len(transcript), Len(transcript) + 1}
    /\ SubSeq(transcript', 1, Len(transcript)) = transcript
    /\ sent' # sent =>
          /\ Len(transcript') = Len(transcript) + 1
          /\ transcript'[Len(transcript')].className = UserClass

C8_TranscriptAlternates ==
    /\ []C8_Turns
    /\ [][C8_AppendOnly]_vars

\* a second turn is under way after a first one was answered
C8_Witness ==
    /\ Len(transcript) = 3
    /\ Len(pending) = 1
    /\ transcript[2].className = AssistantClass

(* C9. For every draft that is not blank, the body of the user entry that  *)
(* sendMessage() appends and the message field of the one request it       *)
(* issues both equal the draft without its leading and trailing white      *)
(* space, and the request's payload has no other field.                    *)
C9_TrimmedEverywhere ==
    [][(last'.ev \in SubmitEvents /\ ~AllWhiteSpace(draft))
          => /\ Len(transcript') = Len(transcript) + 1
             /\ transcript'[Len(transcript')].className = UserClass
             /\ IsTrimmedFormOf(transcript'[Len(transcript')].content, draft)
             /\ Len(sent') = Len(sent) + 1
             /\ IsTrimmedFormOf(sent'[Len(sent')].body.message, draft)
             /\ DOMAIN sent'[Len(sent')].body = {"message"}]_vars

\* a draft with white space around its text has been sent
C9_Witness ==
    /\ last.ev = "enter"
    /\ last.text \in { <<" ", "a">>, <<"a", " ">> }
    /\ sent # <<>>
    /\ sent[Len(sent)].body.message = <<"a">>
    /\ transcript[Len(transcript)].content = <<"a">>

(* C10. On every successful response (a body of the expected shape) the    *)
(* reply text is appended as exactly one assistant entry, and afterwards   *)
(* the field and the button are enabled if and only if the response did    *)
(* not signal termination; when it did, the placeholder is the             *)
(* end-of-session notice and the controls stay disabled.                   *)
C10_SuccessfulResponse ==
    [][(last'.ev = "json.resolved" /\ ExpectedShape(last'.data))
          => /\ Len(transcript') = Len(transcript) + 1
             /\ SubSeq(transcript', 1, Len(transcript)) = transcript
             /\ transcript'[Len(transcript')].className = AssistantClass
             /\ transcript'[Len(transcript')].content = last'.data.response.s
             /\ inputDisabled' = last'.data.quit.b
             /\ buttonDisabled' = last'.data.quit.b
             /\ placeholder' = IF last'.data.quit.b
                               THEN "Session ended. Refresh to start again."
                               ELSE placeholder]_vars

\* a reply that signals termination has been rendered
C10_Witness ==
    /\ last.ev = "json.resolved"
    /\ ExpectedShape(last.data)
    /\ last.data.quit.b
    /\ transcript[Len(transcript)].content = last.data.response.s
    /\ inputDisabled /\ buttonDisabled

(* C11. One network attempt is made per accepted submission and none      *)
(* otherwise: a step issues a request, exactly one, exactly when it is a   *)
(* sendMessage() call on a draft that is not blank made while Idle, so the *)
(* requests issued count those calls; after a failure nothing is issued    *)
(* until the user submits again.                                           *)
C11_OneAttemptPerSubmission ==
    [][IF /\ last'.ev \in SubmitEvents
          /\ ~AllWhiteSpace(draft)
          /\ CtrlState = "Idle"
       THEN /\ Len(sent') = Len(sent) + 1
            /\ SubSeq(sent', 1, Len(sent)) = sent
       ELSE sent' = sent]_vars

\* after a failure, sendMessage() was called on an empty draft: no request
C11_Witness ==
    /\ last.ev = "call"
    /\ CtrlState = "Idle"
    /\ LastEntryIsError
    /\ Len(sent) = 1

(* C12. When every issued request completes in the end, AwaitingReply      *)
(* always leads to Idle or Ended and every failure (the catch block        *)
(* running) leads to Idle; the controls are never disabled with no request *)
(* in flight unless the session is Ended.                                  *)
C12_FailureStep ==
    \/ last'.ev \in {"fetch.rejected", "json.rejected"}
    \/ last'.ev = "json.resolved" /\ ~CarriesReply(last'.data)

\* the fairness of FairSpec is fairness of the completions, no more: the
\* steps are the same, and Settle is enabled exactly when a call is suspended,
\* at one of the two awaits, where a settling of its promise can resume it
C12_SettleIsCompletion ==
    /\ [][Completion <=> <<Settle>>_pending]_vars
    /\ []((ENABLED <<Settle>>_pending) <=> (pending # <<>>))
    /\ [](\A i \in 1..Len(pending) : pending[i].phase \in {"fetch", "json"})

C12_AlwaysBackToIdleOrEnded ==
    /\ C12_SettleIsCompletion
    /\ (CtrlState = "AwaitingReply") ~> (CtrlState \in {"Idle", "Ended"})
    /\ [][C12_FailureStep => CtrlState' = "Idle"]_vars
    /\ []((inputDisabled /\ pending = <<>>) => CtrlState = "Ended")

\* a body of null has been reported and the controller is Idle again
C12_Witness ==
    /\ last.ev = "json.resolved"
    /\ last.data.isNull
    /\ LastEntryIsError
    /\ CtrlState = "Idle"

(* C17. From the moment sendMessage() accepts a draft until the response   *)
(* or the failure of its request is handled, the draft is empty and the    *)
(* field and the button are disabled; the draft is cleared by every        *)
(* accepted submission, also one whose request fails later, and it is      *)
(* still empty when the controller is back in Idle.                        *)
C17_InFlight ==
    pending # <<>> => /\ draft = <<>>
                      /\ inputDisabled
                      /\ buttonDisabled

C17_Step ==
    /\ sent' # sent => /\ ~AllWhiteSpace(draft)
                       /\ draft' = <<>>
                       /\ inputDisabled' /\ buttonDisabled'
    /\ (CtrlState = "AwaitingReply" /\ CtrlState' = "Idle") => draft' = <<>>

C17_DraftClearedAndDisabled ==
    /\ []C17_InFlight
    /\ [][C17_Step]_vars

\* a request has failed and the controller is Idle with an empty draft
C17_Witness ==
    /\ last.ev = "fetch.rejected"
    /\ CtrlState = "Idle"
    /\ draft = <<>>
    /\ transcript[Len(transcript) - 1].className = UserClass

(* C18. While a request is in flight no user action (click, Enter,         *)
(* Shift+Enter, typing, a direct call) changes the transcript, the draft,  *)
(* the disabled flags or the placeholder: the step that changes any of     *)
(* them next is the completion, by success or failure, of that request.    *)
C18_OnlyCompletionChanges ==
    [][(pending # <<>> /\ <<transcript, draft, inputDisabled, buttonDisabled,
                            placeholder>>'
                          # <<transcript, draft, inputDisabled, buttonDisabled,
                              placeholder>>)
          => /\ last'.ev \in {"fetch.rejected", "json.rejected", "json.resolved"}
             /\ Len(pending') = Len(pending) - 1]_vars

\* sendMessage() was called while the body of the response was awaited
C18_Witness ==
    /\ Len(pending) = 1
    /\ pending[1].phase = "json"
    /\ last.ev = "call"
    /\ Len(transcript) % 2 = 1

(* C20. In every state between events the disabled flag of the draft field *)
(* equals the disabled flag of the send button.                            *)
C20_FlagsAgree == inputDisabled = buttonDisabled

\* both controls have been enabled again by the catch block
C20_Witness ==
    /\ last.ev = "json.rejected"
    /\ ~inputDisabled
    /\ ~buttonDisabled
    /\ Len(sent) = MaxTurns

----------------------------------------------------------------------------
(* Properties of the renderer, over RenderSpec. *)

\* addMessage has run: Body is the content it was given, Html the markup it
\* put into the entry
Rendered == transcript # <<>>
Body     == last.text
Html     == transcript[1].html

TagUl     == <<"<", "u", "l", ">">>
TagUlEnd  == <<"<", "/", "u", "l", ">">>
TagLi     == <<"<", "l", "i", ">">>
TagLiEnd  == <<"<", "/", "l", "i", ">">>
TagDiv    == <<"<", "d", "i", "v", ">">>
TagDivEnd == <<"<", "/", "d", "i", "v", ">">>
TagBr     == <<"<", "b", "r", ">">>

FormatterTags == {TagUl, TagUlEnd, TagLi, TagLiEnd, TagDiv, TagDivEnd, TagBr}

CharacterReferences ==
    { <<"&", "a", "m", "p", ";">>, <<"&", "l", "t", ";">>, <<"&", "g", "t", ";">> }

\* h read from the left: every '<' opens one of the formatter's tags, every
\* '&' opens a character reference, and no '>' stands outside a tag
RECURSIVE OnlyFormatterTags(_)
OnlyFormatterTags(h) ==
    IF h = <<>> THEN TRUE
    ELSE IF Head(h) = "<"
    THEN \E t \in FormatterTags :
            StartsWith(h, t) /\ OnlyFormatterTags(Substring(h, Len(t)))
    ELSE IF Head(h) = "&"
    THEN \E r \in CharacterReferences :
            StartsWith(h, r) /\ OnlyFormatterTags(Substring(h, Len(r)))
    ELSE Head(h) # ">" /\ OnlyFormatterTags(Tail(h))

(* C13. Whatever the label and the body, the markup put into the           *)
(* transcript holds the '<', '>' and '&' of the body in escaped form only: *)
(* its only tags are the ul, li, div and br tags the formatter emits, and  *)
(* the body '<script>' is rendered as the text '&lt;script&gt;'.           *)
C13_BodyIsEscaped ==
    Rendered =>
        /\ OnlyFormatterTags(Html)
        /\ Body = <<"<", "s", "c", "r", "i", "p", "t", ">">> =>
              Html = TagDiv \o <<"&", "l", "t", ";", "s", "c", "r", "i", "p", "t",
                                 "&", "g", "t", ";">> \o TagDivEnd

\* a body that holds '<', '>' and '&' has been rendered
C13_Witness ==
    /\ Rendered
    /\ Body = <<"<", "&", ">">>
    /\ Html = TagDiv \o <<"&", "l", "t", ";", "&", "a", "m", "p", ";",
                          "&", "g", "t", ";">> \o TagDivEnd

\* the line begins, once trimmed, with a bullet marker
BulletLine(line) ==
    \/ StartsWith(Trim(line), <<"â", "€", "¢">>)
    \/ StartsWith(Trim(line), <<"-">>)

\* what line i of lines contributes, told from its neighbours alone: a list
\* opens before a bullet line that follows none and closes after a bullet
\* line that none follows (the entry's text is the trimmed line without its
\* first character, trimmed again; C16 is about that text)
BlockOf(lines, i) ==
    LET bullet(j) == j \in 1..Len(lines) /\ BulletLine(lines[j])
        visible   == Trim(lines[i])
    IN  IF bullet(i)
        THEN (IF bullet(i - 1) THEN <<>> ELSE TagUl)
             \o TagLi \o EscapeHtml(Trim(Tail(visible))) \o TagLiEnd
             \o (IF bullet(i + 1) THEN <<>> ELSE TagUlEnd)
        ELSE IF visible # <<>>
        THEN TagDiv \o EscapeHtml(visible) \o TagDivEnd
        ELSE TagBr

RECURSIVE BlocksFrom(_, _)
BlocksFrom(lines, i) ==
    IF i > Len(lines) THEN <<>>
    ELSE BlockOf(lines, i) \o BlocksFrom(lines, i + 1)

(* C14. formatMessage puts each maximal run of consecutive bullet lines    *)
(* into one list, in input order, emits each other line with visible text  *)
(* as a block of its own and each other blank line as a line break, and    *)
(* closes a list still open at the end of the input; the body of lines     *)
(* '- a', '- b', 'c' renders as one list of 'a' and 'b' and then a block   *)
(* of 'c'.                                                                 *)
C14_RunsBecomeLists ==
    Rendered =>
        /\ Html = BlocksFrom(Split(Body), 1)
        /\ Body = <<"-", " ", "a", "\n", "-", " ", "b", "\n", "c">> =>
              Html = TagUl \o TagLi \o <<"a">> \o TagLiEnd
                           \o TagLi \o <<"b">> \o TagLiEnd \o TagUlEnd
                     \o TagDiv \o <<"c">> \o TagDivEnd

\* the body of lines '- a', '- b', 'c' has been rendered
C14_Witness ==
    /\ Rendered
    /\ Body = <<"-", " ", "a", "\n", "-", " ", "b", "\n", "c">>
    /\ StartsWith(Html, TagUl \o TagLi \o <<"a">>)

RECURSIVE Breaks(_)
Breaks(n) == IF n = 0 THEN <<>> ELSE TagBr \o Breaks(n - 1)

NewLines(text) == Cardinality({i \in 1..Len(text) : text[i] = "\n"})

(* C15. Every body that is empty after trimming (the empty string, white   *)
(* space, white space with newlines in it) renders as exactly one line     *)
(* break.                                                                  *)
C15_BlankIsOneBreak ==
    (Rendered /\ AllWhiteSpace(Body)) => Html = TagBr

\* C15 as it holds: a body that is empty after trimming renders as line
\* breaks only, one for each of its lines: exactly one when it holds no
\* newline, and one more for every newline in it.
C15_BlankIsOneBreakPerLine ==
    (Rendered /\ AllWhiteSpace(Body)) => Html = Breaks(NewLines(Body) + 1)

\* a blank body of two lines has been rendered as two line breaks
C15_Witness ==
    /\ Rendered
    /\ Body = <<" ", "\n">>
    /\ Html = TagBr \o TagBr

(* C16. For a line that begins, once trimmed, with a recognized bullet     *)
(* marker (the glyph as the source spells it, or a hyphen) the list entry  *)
(* is the text after the whole marker, trimmed and escaped: no character   *)
(* of the marker is left in the entry.                                     *)
C16_WholeMarkerStripped ==
    \A marker \in { <<"â", "€", "¢">>, <<"-">> } :
        (Rendered /\ NewLines(Body) = 0 /\ StartsWith(Trim(Body), marker))
            => Html = TagUl \o TagLi
                      \o EscapeHtml(Trim(Substring(Trim(Body), Len(marker))))
                      \o TagLiEnd \o TagUlEnd

\* h read from the left with the number of lists open: a list opens only
\* outside a list, closes only inside one, an entry lies inside one, and
\* none is open at the end
RECURSIVE ListsBalanced(_, _)
ListsBalanced(h, open) ==
    IF h = <<>> THEN open = 0
    ELSE IF StartsWith(h, TagUl)
    THEN open = 0 /\ ListsBalanced(Substring(h, Len(TagUl)), 1)
    ELSE IF StartsWith(h, TagUlEnd)
    THEN open = 1 /\ ListsBalanced(Substring(h, Len(TagUlEnd)), 0)
    ELSE IF StartsWith(h, TagLi) \/ StartsWith(h, TagLiEnd)
    THEN open = 1 /\ ListsBalanced(Tail(h), open)
    ELSE ListsBalanced(Tail(h), open)

(* C19. For every string formatMessage returns markup that is not empty,   *)
(* so that the fallback to the escaped raw text is never taken, and the    *)
(* markup is well formed: list tags are balanced, lists are not nested and *)
(* every list entry lies inside a list.                                    *)
C19_MarkupNeverEmpty ==
    Rendered =>
        /\ Markup(Body) # <<>>
        /\ Html = Markup(Body)
        /\ Html # <<>>
        /\ Head(Html) = "<"
        /\ ListsBalanced(Html, 0)

\* the empty body has been rendered, as a line break
C19_Witness ==
    /\ Rendered
    /\ Body = <<>>
    /\ Html = TagBr

====
